---------------------------- MODULE Spec2Model ----------------------------
(***************************************************************************)
(* Model of the workout tracker's progressive-overload and personal-record *)
(* engine (russmin/dancers-split-app).                                     *)
(*                                                                         *)
(* Numbers.  The program computes with IEEE doubles; the model computes    *)
(* the same expressions over exact decimals.  A weight or a volume is an   *)
(* integer number of hundredths (4250 is 42.5), in kg when stored and in   *)
(* the display unit when typed or suggested; a value that is not a whole   *)
(* number of hundredths (the result of a unit conversion) is an exact      *)
(* quotient [q, r, d] standing for q + r/d hundredths.                     *)
(*                                                                         *)
(* Optional fields.  A field that is absent or undefined in a JavaScript   *)
(* object (weightKg, isPRMaxWeight, isPRVolume) is a field that is not in  *)
(* the DOMAIN of the record; the code tells the two apart nowhere.         *)
(*                                                                         *)
(* Names are ordinary exercise names: none is the name of a member of      *)
(* Object.prototype.                                                       *)
(***************************************************************************)
EXTENDS Integers, Sequences, FiniteSets, TLC

VARIABLES
    workouts,      \* the log, newest first: useState<WorkoutEntry[]>
    unit,          \* profile.unit, the display unit: "kg" or "lb"
    nextId,        \* the number of ids uid() has handed out
    batches,       \* history: the sizes of the insert batches still in the log, newest first
    wReps,         \* manual-log form: the reps field
    wWeight,       \* manual-log form: the weight field
    sessionPlan,   \* the running session's plan: useState sessionPlan
    lastOp,        \* history: the handler that ran last, with its arguments
    runner         \* the mounted CircuitRunner: its state, interval and timeouts

vars == <<workouts, unit, nextId, batches, wReps, wWeight, sessionPlan, lastOp, runner>>

-----------------------------------------------------------------------------
(* Bounds of the model *)

\* uid() hands out at most this many ids, so the log never holds more entries.
MaxEntries == 3

Units == {"kg", "lb"}

\* The exercise names the user works with; the timed twin of a name is the
\* name followed by " (sec)".
BaseNames == {"Pallof Press", "pallof press"}
ExerciseNames == BaseNames \cup {"Pallof Press" \o " (sec)"}

\* Training days (day numbers).
Dates == {1}

\* What the user types into a reps field and into a weight field (hundredths
\* of the display unit); Blank is the empty field.
Blank == -1
TypedReps == {11, 12}
TypedWeights == {4000, 4250}

\* Rep ranges [min, max] of the exercise library; the form stores 0 for a
\* field that was cleared.
RepRanges == {<<8, 12>>, <<8, 0>>}

-----------------------------------------------------------------------------
(* Arithmetic *)

\* floor(x * m / d) and the remainder, by long multiplication over the digits
\* of x, so that no intermediate value leaves 32 bits (0 <= m, d <= 10^8).
RECURSIVE MulDiv(_, _, _)
MulDiv(x, m, d) ==
    IF x = 0 THEN [q |-> 0, r |-> 0, d |-> d]
    ELSE LET p == MulDiv(x \div 10, m, d)
             t == 10 * p.r + (x % 10) * m
         IN  [q |-> 10 * p.q + t \div d, r |-> t % d, d |-> d]

\* An integer number of hundredths as an exact quotient.
Whole(n) == [q |-> n, r |-> 0, d |-> 1]

\* Math.round: the nearest integer, a half going up.
MathRound(x) == x.q + (IF 2 * x.r >= x.d THEN 1 ELSE 0)

-----------------------------------------------------------------------------
(* Unit conversion: src/src/types.ts *)

\* KG_PER_LB = 0.45359237, times 10^8.
KG_PER_LB == 45359237
E8 == 10000 * 10000

\* toKg(value, unit): value * KG_PER_LB for lb, the value itself for kg.
toKg(value, u) ==
    IF u = "lb" THEN MulDiv(value, KG_PER_LB, E8) ELSE Whole(value)

\* fromKg(kg, unit): kg / KG_PER_LB for lb, kg itself for kg.  kg is an exact
\* quotient over 1 or over 10^8: (q + r/10^8) * 10^8 / KG_PER_LB.
fromKg(kg, u) ==
    IF u = "lb"
    THEN LET p == MulDiv(kg.q, E8, KG_PER_LB)
             rest == p.r + (IF kg.d = 1 THEN 0 ELSE kg.r)
         IN  [q |-> p.q + rest \div KG_PER_LB, r |-> rest % KG_PER_LB, d |-> KG_PER_LB]
    ELSE kg

\* fromKg(kg, unit) of src/src/lib/utils.ts, the one the progress chart shows
\* weights with: kg / 0.453592 for lb, kg itself for kg.
fromKgUtils(kg, u) ==
    IF u = "kg" THEN Whole(kg) ELSE MulDiv(kg, 1000000, 453592)

\* toKg(value, unit) of a value that is an exact quotient q + r/d: the product
\* with KG_PER_LB over 10^8, kept to 10^-8 of a hundredth of a kg (what is
\* below that is dropped, as it is below the precision of a double).
toKgOf(x, u) ==
    IF u = "lb"
    THEN LET whole == MulDiv(x.q, KG_PER_LB, E8)
             part == MulDiv(x.r, KG_PER_LB, x.d)
             rest == whole.r + part.q
         IN  [q |-> whole.q + rest \div E8, r |-> rest % E8, d |-> E8]
    ELSE x

\* Math.round(toKg(rawWeight, unit) * 100) / 100: the stored weight.
StoredKg(rawWeight, u) == MathRound(toKg(rawWeight, u))

-----------------------------------------------------------------------------
(* Log entries *)

HasWeight(w) == "weightKg" \in DOMAIN w

\* isTimedName(name): /\(sec\)\s*$/, the name ends in "(sec)" and white space.
isTimedName(name) ==
    \E b \in BaseNames \cup {"Plank", ""}, sp \in {"", " "}, ws \in {"", " "} :
        name = b \o sp \o "(sec)" \o ws

\* A new entry as the handlers build it: weightKg is left out when undefined.
NewEntry(id, date, name, sets, reps, weightKg) ==
    LET base == [id |-> id, date |-> date, name |-> name, sets |-> sets, reps |-> reps]
    IN  IF weightKg = Blank THEN base ELSE [weightKg |-> weightKg] @@ base

-----------------------------------------------------------------------------
(* PR detection: src/src/lib/pr.ts *)

\* A volume that leaves the reps out.
Volume_WeightOnly(w) == IF HasWeight(w) THEN w.weightKg ELSE 100

\* reps * (weightKg ?? 1), in hundredths.
Volume(w) == w.reps * (IF HasWeight(w) THEN w.weightKg ELSE 100)

EmptyObject == [k \in {} |-> 0]

\* An iteration that records the entry's values whatever the map holds.
computePRsStep_Latest(map, w) ==
    LET m0 == IF w.name \in DOMAIN map THEN map[w.name] ELSE EmptyObject
        m1 == IF HasWeight(w) THEN [maxWeightKg |-> w.weightKg] @@ m0 ELSE m0
    IN  [n \in {w.name} |-> [maxVolumeKg |-> Volume(w)] @@ m1] @@ map

\* One iteration of the loop of computePRs: the map after entry w.
computePRsStep(map, w) ==
    LET vol == Volume(w)
        m0 == IF w.name \in DOMAIN map THEN map[w.name] ELSE EmptyObject
        m1 == IF HasWeight(w)
                 /\ ("maxWeightKg" \notin DOMAIN m0 \/ w.weightKg > m0.maxWeightKg)
              THEN [maxWeightKg |-> w.weightKg] @@ m0
              ELSE m0
        m2 == IF "maxVolumeKg" \notin DOMAIN m1 \/ vol > m1.maxVolumeKg
              THEN [maxVolumeKg |-> vol] @@ m1
              ELSE m1
    IN  [n \in {w.name} |-> m2] @@ map

\* computePRs(entries): the loop over the entries, first to last.
RECURSIVE computePRsUpTo(_, _)
computePRsUpTo(entries, k) ==
    IF k = 0 THEN EmptyObject
    ELSE computePRsStep(computePRsUpTo(entries, k - 1), entries[k])

\* Records computed from the entries that have a weight only.
computePRs_Weighted(entries) ==
    LET weighted == SelectSeq(entries, HasWeight)
    IN  computePRsUpTo(weighted, Len(weighted))

computePRs(entries) == computePRsUpTo(entries, Len(entries))

\* Flags that count a tie with the record as a PR.
markOne_Ties(prs, w) ==
    LET prev == IF w.name \in DOMAIN prs THEN prs[w.name] ELSE EmptyObject
    IN  [isPRMaxWeight |-> HasWeight(w)
                           /\ ("maxWeightKg" \notin DOMAIN prev
                               \/ w.weightKg >= prev.maxWeightKg),
         isPRVolume |-> "maxVolumeKg" \notin DOMAIN prev
                        \/ Volume(w) >= prev.maxVolumeKg] @@ w

\* The flags markPRsBeforeInsert gives entry w against the records prs.
markOne(prs, w) ==
    LET prev == IF w.name \in DOMAIN prs THEN prs[w.name] ELSE EmptyObject
        vol == Volume(w)
        isPRMaxWeight ==
            HasWeight(w)
            /\ ("maxWeightKg" \notin DOMAIN prev \/ w.weightKg > prev.maxWeightKg)
        isPRVolume ==
            "maxVolumeKg" \notin DOMAIN prev \/ vol > prev.maxVolumeKg
    IN  [isPRMaxWeight |-> isPRMaxWeight, isPRVolume |-> isPRVolume] @@ w

\* A marking that lets each entry of the batch raise the bar for the next.
markPRsBeforeInsert_Running(history, incoming) ==
    [i \in 1..Len(incoming) |->
        markOne(computePRs(history \o SubSeq(incoming, 1, i - 1)), incoming[i])]

\* markPRsBeforeInsert(history, incoming)
markPRsBeforeInsert(history, incoming) ==
    LET prs == computePRs(history)
    IN  [i \in 1..Len(incoming) |-> markOne(prs, incoming[i])]

-----------------------------------------------------------------------------
(* Progressive overload: src/src/types.ts *)

\* PO_INCR = { kg: 2.5, lb: 5 }, in hundredths of the unit.
PO_INCR(u) == IF u = "kg" THEN 250 ELSE 500

\* A lookup that takes timed entries too.
lastEntryFor_Timed(ws, name) ==
    LET filtered == SelectSeq(ws, LAMBDA w : w.name = name)
    IN  IF Len(filtered) = 0 THEN <<>> ELSE <<filtered[1]>>

\* lastEntryFor(workouts, name): the first entry of that exact name that is
\* not a timed one; <<>> stands for undefined.
lastEntryFor(ws, name) ==
    LET filtered == SelectSeq(ws, LAMBDA w : w.name = name /\ ~isTimedName(w.name))
    IN  IF Len(filtered) = 0 THEN <<>> ELSE <<filtered[1]>>

\* roundDisplayUnit(n, unit): Math.round(n / step) * step, step 0.5 kg or 1 lb.
\* floor(n / step + 1/2) = floor(floor(2 * n + step) / (2 * step)).
roundDisplayUnit(n, u) ==
    LET step == IF u = "kg" THEN 50 ELSE 100
    IN  ((2 * n.q + step + (2 * n.r) \div n.d) \div (2 * step)) * step

\* prevWeightKg + incKg, with incKg = PO_INCR[unit] === 5 ? 5 * KG_PER_LB : 2.5
suggestedKg(prevWeightKg, u) ==
    LET incKg == IF PO_INCR(u) = 500 THEN toKg(500, "lb") ELSE Whole(250)
    IN  [q |-> prevWeightKg + incKg.q, r |-> incKg.r, d |-> incKg.d]

\* The reps and the weight buildSessionPlan prefills for a sets/reps exercise
\* of the given name and rep range (repRange[0], repRange[1]).
buildSessionPlan(ws, name, repRange, u) ==
    LET repLow == repRange[1]
        repHigh == repRange[2]
        prev == lastEntryFor(ws, name)
    IN  IF prev = <<>> THEN [reps |-> repLow, weight |-> Blank]
        ELSE LET prevReps == prev[1].reps
             IN  IF repHigh # 0 /\ prevReps >= repHigh
                 THEN [reps |-> repLow,
                       weight |-> IF HasWeight(prev[1])
                                  THEN roundDisplayUnit(fromKg(suggestedKg(prev[1].weightKg, u), u), u)
                                  ELSE Blank]
                 ELSE [reps |-> prevReps + 1,
                       weight |-> IF HasWeight(prev[1])
                                  THEN roundDisplayUnit(fromKg(Whole(prev[1].weightKg), u), u)
                                  ELSE Blank]

-----------------------------------------------------------------------------
(* The handlers of the log: src/src/types.ts, src/unnamed/part_005 *)

\* The reps field of the manual-log form after a save: setWReps("10").
DefaultReps == 10

\* Number(field) of a field holding a number or "": Number("") is 0.
NumberOf(field) == IF field = Blank THEN 0 ELSE field

\* The batch put after the log.
Prepend_After(withPR, prev) == prev \o withPR

\* setWorkouts(prev => [...withPR, ...prev])
Prepend(withPR, prev) == withPR \o prev

\* The batches after the entry at index i left the log.
RECURSIVE BatchesWithout(_, _)
BatchesWithout(bs, i) ==
    IF bs = <<>> THEN <<>>
    ELSE IF i <= Head(bs)
         THEN (IF Head(bs) = 1 THEN <<>> ELSE <<Head(bs) - 1>>) \o Tail(bs)
         ELSE <<Head(bs)>> \o BatchesWithout(Tail(bs), i - Head(bs))

\* The runner before a circuit session renders it.
NotMounted == [mounted |-> FALSE]

Init ==
    /\ workouts = <<>>
    /\ unit \in Units
    /\ nextId = 0
    /\ batches = <<>>
    /\ wReps = DefaultReps
    /\ wWeight = Blank
    /\ sessionPlan = <<>>
    /\ lastOp = [op |-> "init"]
    /\ runner = NotMounted

\* The "Add Sets/Reps" button of the manual log.  name is wName.trim(), sets
\* is Number(wSets), date is sessionDate; reps and weight are what the Reps and
\* Weight fields hold at the click: what the form holds since the last save
\* or prefill (wReps, wWeight), or what the user typed over it since.
ManualInsert(name, sets, reps, weight, date) ==
    LET weightKg == IF weight = Blank THEN Blank ELSE StoredKg(weight, unit)
        entry == NewEntry(nextId + 1, date, name, sets, reps, weightKg)
        withPR == markPRsBeforeInsert(workouts, <<entry>>)
    IN  /\ nextId < MaxEntries
        /\ reps \in TypedReps \cup {NumberOf(wReps)}
        /\ weight \in TypedWeights \cup {wWeight}
        /\ sets > 0
        /\ reps > 0
        /\ workouts' = Prepend(withPR, workouts)
        /\ nextId' = nextId + 1
        /\ batches' = <<1>> \o batches
        /\ wReps' = DefaultReps
        /\ wWeight' = Blank
        /\ lastOp' = [op |-> "insert"]
        /\ UNCHANGED <<runner, unit, sessionPlan>>

\* The exercises of the workout library a session is started from: the name,
\* whether it is timed (with its seconds), the number of sets, the rep range.
WorkoutExercises ==
    [name : ExerciseNames, timed : {FALSE}, seconds : {0}, sets : {1, 2},
     repRange : RepRanges]
    \cup [name : {"Pallof Press"}, timed : {TRUE}, seconds : {30}, sets : {1},
          repRange : {<<8, 12>>}]

\* One element of the plan buildSessionPlan returns, for workout exercise we.
PlanItem(ws, we, u) ==
    IF we.timed
    THEN [name |-> we.name, timed |-> TRUE, seconds |-> we.seconds,
          sets |-> <<[reps |-> Blank, weight |-> Blank]>>]
    ELSE LET next == buildSessionPlan(ws, we.name, we.repRange, u)
         IN  [name |-> we.name, timed |-> FALSE, seconds |-> 0,
              sets |-> [j \in 1..we.sets |-> next]]

\* startSession(day): the plan of the day's workout becomes the session plan.
\* The model's workouts hold one exercise; an empty sessionPlan is
\* sessionActive = false (the plan of a finished session is never read).
StartSession(we) ==
    /\ sessionPlan' = <<PlanItem(workouts, we, unit)>>
    /\ lastOp' = [op |-> "startSession", we |-> we]
    /\ UNCHANGED <<runner, workouts, unit, nextId, batches, wReps, wWeight>>

\* unit === "lb" ? Math.round(weight * 0.45359237 * 100) / 100 : weight
SessionKg(weight, u) ==
    IF u = "lb" THEN MathRound(MulDiv(weight, KG_PER_LB, E8)) ELSE weight

\* The entries finishSessionAndSave pushes for the sets of exercise ex, the
\* first of them getting id first + 1.
SetEntries(ex, first, date, u) ==
    [j \in 1..Len(ex.sets) |->
        NewEntry(first + j, date, ex.name, 1, NumberOf(ex.sets[j].reps),
                 SessionKg(NumberOf(ex.sets[j].weight), u))]

\* The entries finishSessionAndSave pushes for exercise ex.
ExerciseEntries(ex, first, date, u) ==
    IF ex.timed
    THEN <<NewEntry(first + 1, date, ex.name \o " (sec)", 1, ex.seconds, Blank)>>
         \o SetEntries(ex, first + 1, date, u)
    ELSE SetEntries(ex, first, date, u)

\* What the user types into the rows of the session table.
SessionReps == {12}
SessionWeights == {4250}

\* What the rows of the session table can hold at the finish: each field what
\* startSession prefilled, or what the user typed over it since (a number, or
\* nothing).
RowsOf(ex) ==
    LET n == Len(ex.sets)
        pre(f) == {ex.sets[k][f] : k \in 1..n}
        all == [1..n -> [reps : SessionReps \cup {Blank} \cup pre("reps"),
                         weight : SessionWeights \cup {Blank} \cup pre("weight")]]
    IN  {rows \in all :
            \A k \in 1..n :
                /\ rows[k].reps \in SessionReps \cup {Blank, ex.sets[k].reps}
                /\ rows[k].weight \in SessionWeights \cup {Blank, ex.sets[k].weight}}

\* finishSessionAndSave(); date is sessionDate, rows are the rows of the
\* session table at the click.
FinishSessionAndSave(rows, date) ==
    /\ LET ex == [sessionPlan[1] EXCEPT !.sets = rows]
           entries == ExerciseEntries(ex, nextId, date, unit)
           withPR == markPRsBeforeInsert(workouts, entries)
       IN  /\ nextId + Len(entries) <= MaxEntries
           /\ workouts' = Prepend(withPR, workouts)
           /\ nextId' = nextId + Len(entries)
           /\ batches' = <<Len(entries)>> \o batches
    /\ sessionPlan' = <<>>
    /\ lastOp' = [op |-> "finish"]
    /\ UNCHANGED <<runner, unit, wReps, wWeight>>

\* The drafts the edit form of row w can hold at Save: startEdit copies the
\* row, the form changes date, sets, reps and weight (the name has no field).
\* Number(value) || 0 for reps; "" for no weight, else
\* Math.round(toKg(Number(val), unit) * 100) / 100.
Drafts(w, u) ==
    LET noWeight == [k \in DOMAIN w \ {"weightKg"} |-> w[k]]
        weighted == {w} \cup {noWeight}
                    \cup {[weightKg |-> StoredKg(v, u)] @@ noWeight : v \in TypedWeights}
    IN  {[[d EXCEPT !.date = date] EXCEPT !.reps = reps] :
            d \in weighted, date \in Dates, reps \in TypedReps \cup {w.reps}}

\* The index of the entry of that id.
IndexOf(ws, id) == CHOOSE i \in 1..Len(ws) : ws[i].id = id

\* A save that marks the edited entry against the whole log, itself included.
SaveEdit_WholeLog(id, patch) ==
    LET withPR == markPRsBeforeInsert(workouts, <<patch>>)
        updated == [i \in 1..Len(workouts) |->
                       IF workouts[i].id = id THEN withPR[1] ELSE workouts[i]]
    IN  /\ workouts' = updated
        /\ lastOp' = [op |-> "saveEdit", id |-> id, patch |-> patch]
        /\ UNCHANGED <<runner, unit, nextId, batches, wReps, wWeight, sessionPlan>>

\* WorkoutLogTable.saveEdit(id), patch being editDrafts[id].
SaveEdit(id, patch) ==
    LET workoutsWithoutEdited == SelectSeq(workouts, LAMBDA w : w.id # id)
        withPR == markPRsBeforeInsert(workoutsWithoutEdited, <<patch>>)
        updated == [i \in 1..Len(workouts) |->
                       IF workouts[i].id = id THEN withPR[1] ELSE workouts[i]]
    IN  /\ workouts' = updated
        /\ lastOp' = [op |-> "saveEdit", id |-> id, patch |-> patch]
        /\ UNCHANGED <<runner, unit, nextId, batches, wReps, wWeight, sessionPlan>>

\* WorkoutLogTable.removeWorkout(id)
\* A removal that marks the entries that remain anew, as a fresh log.
RemoveWorkout_Remarked(id) ==
    /\ workouts' = markPRsBeforeInsert(<<>>, SelectSeq(workouts, LAMBDA w : w.id # id))
    /\ batches' = BatchesWithout(batches, IndexOf(workouts, id))
    /\ lastOp' = [op |-> "remove", id |-> id]
    /\ UNCHANGED <<runner, unit, nextId, wReps, wWeight, sessionPlan>>

RemoveWorkout(id) ==
    /\ workouts' = SelectSeq(workouts, LAMBDA w : w.id # id)
    /\ batches' = BatchesWithout(batches, IndexOf(workouts, id))
    /\ lastOp' = [op |-> "remove", id |-> id]
    /\ UNCHANGED <<runner, unit, nextId, wReps, wWeight, sessionPlan>>

\* The unit select of the profile: handleProfileChange("unit", u).
SetUnit(u) ==
    /\ u # unit
    /\ unit' = u
    /\ lastOp' = [op |-> "setUnit"]
    /\ UNCHANGED <<runner, workouts, nextId, batches, wReps, wWeight, sessionPlan>>

\* The exercises of the library the manual log is filled from: the name and
\* defaultRepRange.
Exercises == [name : {"Pallof Press", "Pallof Press (sec)"}, defaultRepRange : RepRanges]

\* The prefill effect of the manual log, for the exercise selected in the
\* form (wExerciseId, not an open entry).  fieldReps and fieldWeight are what
\* the Reps and Weight fields hold when the effect runs: what the form holds
\* since the last save or prefill, or what the user typed over it since.  The
\* effect runs again on what it set, and then changes nothing.
Prefill(exercise, fieldReps, fieldWeight) ==
    LET min == exercise.defaultRepRange[1]
        max == exercise.defaultRepRange[2]
        prev == lastEntryFor(workouts, exercise.name)
        prevReps == prev[1].reps
        nextReps == IF fieldReps \in {Blank, DefaultReps}
                    THEN IF prev # <<>>
                         THEN (IF prevReps >= max THEN min ELSE prevReps + 1)
                         ELSE min
                    ELSE fieldReps
        nextWeight == IF prev # <<>> /\ fieldWeight = Blank /\ HasWeight(prev[1])
                      THEN IF prevReps >= max
                           THEN roundDisplayUnit(
                                    fromKg(suggestedKg(prev[1].weightKg, unit), unit), unit)
                           ELSE roundDisplayUnit(fromKg(Whole(prev[1].weightKg), unit), unit)
                      ELSE fieldWeight
    IN  /\ fieldReps \in TypedReps \cup {Blank, wReps}
        /\ fieldWeight \in TypedWeights \cup {Blank, wWeight}
        /\ wReps' = nextReps
        /\ wWeight' = nextWeight
        /\ lastOp' = [op |-> "prefill", exercise |-> exercise,
                      reps |-> fieldReps, weight |-> fieldWeight]
        /\ UNCHANGED <<runner, workouts, unit, nextId, batches, sessionPlan>>

\* The lines of dancerSplit (src/src/App.tsx) as parseSetsAndReps reads them:
\* "Pallof Press: 3x10-12/side (60s rest)" is 3 sets, reps the upper bound 12.
dancerSplit == {[name |-> "Pallof Press", sets |-> 3, reps |-> 12]}

\* The reps and the weight startSession of src/src/App.tsx prefills for a
\* parsed line.
startSessionDefaults(ws, parsed, u) ==
    LET prev == lastEntryFor(ws, parsed.name)
        max(a, b) == IF a >= b THEN a ELSE b
    IN  IF prev = <<>> THEN [reps |-> parsed.reps, weight |-> Blank]
        ELSE [reps |-> max(parsed.reps, prev[1].reps + 1),
              weight |-> IF HasWeight(prev[1])
                         THEN roundDisplayUnit(fromKg(suggestedKg(prev[1].weightKg, u), u), u)
                         ELSE Blank]

\* startSession(day) of src/src/App.tsx, the earlier session builder, for a
\* day of the split with that line.
StartSessionApp(parsed) ==
    /\ sessionPlan' = <<[name |-> parsed.name, timed |-> FALSE, seconds |-> 0,
                         sets |-> [j \in 1..parsed.sets |->
                                      startSessionDefaults(workouts, parsed, unit)]]>>
    /\ lastOp' = [op |-> "startSessionApp", parsed |-> parsed]
    /\ UNCHANGED <<runner, workouts, unit, nextId, batches, wReps, wWeight>>

Ids(ws) == {ws[i].id : i \in 1..Len(ws)}

\* The workouts sessions are started from where the log is what matters: two
\* sets of presses, or a timed hold.
LoggedExercises ==
    {we \in WorkoutExercises :
        we.name = "Pallof Press" /\ we.repRange = <<8, 12>> /\ (we.timed \/ we.sets = 2)}

\* The log grows: manual entries and sessions.
Next ==
    \/ \E name \in BaseNames, reps \in TypedReps,
          weight \in TypedWeights \cup {Blank}, date \in Dates :
            ManualInsert(name, 1, reps, weight, date)
    \/ \E we \in LoggedExercises : StartSession(we)
    \/ /\ sessionPlan # <<>>
       /\ \E rows \in RowsOf(sessionPlan[1]), date \in Dates :
            FinishSessionAndSave(rows, date)

Spec == Init /\ [][Next]_vars

\* The log is corrected: entries of one exercise are added, edited and removed.
NextEdit ==
    \/ \E reps \in TypedReps, weight \in TypedWeights \cup {Blank}, date \in Dates :
            ManualInsert("Pallof Press", 1, reps, weight, date)
    \/ \E id \in Ids(workouts) :
            \E patch \in Drafts(workouts[IndexOf(workouts, id)], unit) : SaveEdit(id, patch)
    \/ \E id \in Ids(workouts) : RemoveWorkout(id)

EditSpec == Init /\ [][NextEdit]_vars

\* getTargetRepRangeForExercise(name): the range written in the name
\* ("Press 8-12"), <<>> for null.
getTargetRepRangeForExercise(name) ==
    IF name = "Press 8-12" THEN <<(<<8, 12>>)>> ELSE <<>>

\* The suggestedReps and suggestedWeight applyProgressiveOverload gives a set
\* of a plan item of that name, prev being the prior entry; Blank is undefined.
suggestedForSet(prev, set, name, u) ==
    IF set.reps = Blank THEN [suggestedReps |-> Blank, suggestedWeight |-> Blank]
    ELSE LET targetRange == getTargetRepRangeForExercise(name)
             topOfRange == IF targetRange # <<>> THEN targetRange[1][2] ELSE set.reps
         IN  IF prev.reps < topOfRange
             THEN [suggestedReps |-> prev.reps + 1, suggestedWeight |-> Blank]
             ELSE IF HasWeight(prev)
                  THEN [suggestedReps |-> IF targetRange # <<>> THEN targetRange[1][1]
                                          ELSE set.reps,
                        suggestedWeight |->
                            roundDisplayUnit(fromKg(suggestedKg(prev.weightKg, u), u), u)]
                  ELSE [suggestedReps |-> Blank, suggestedWeight |-> Blank]

\* applyProgressiveOverload(plan, workouts, unit) for one item of the plan.
applyProgressiveOverload(exercise, ws, u) ==
    LET prev == lastEntryFor(ws, exercise.name)
    IN  IF exercise.timed \/ prev = <<>> THEN exercise
        ELSE [exercise EXCEPT !.sets =
                 [j \in 1..Len(exercise.sets) |->
                     suggestedForSet(prev[1], exercise.sets[j], exercise.name, u)
                         @@ exercise.sets[j]]]

\* The session plan gets the suggestions of applyProgressiveOverload.
ApplyProgressiveOverload ==
    /\ sessionPlan # <<>>
    /\ sessionPlan' = <<applyProgressiveOverload(sessionPlan[1], workouts, unit)>>
    /\ lastOp' = [op |-> "apply"]
    /\ UNCHANGED <<runner, workouts, unit, nextId, batches, wReps, wWeight>>

\* The entries a suggestion is made from, and the sessions it is made for.
MaxPrior == 2
SuggestedExercises ==
    {we \in WorkoutExercises : we.name # "pallof press" /\ we.sets = 1}

\* Suggestions: the log gets its first entries, the unit changes, and
\* sessions are started and the manual log prefilled over it.
NextSuggest ==
    \/ /\ Len(workouts) < MaxPrior
       /\ \E name \in {"Pallof Press", "Pallof Press (sec)"}, reps \in TypedReps,
             weight \in {4000, Blank}, date \in Dates :
               ManualInsert(name, 1, reps, weight, date)
    \/ \E u \in Units : SetUnit(u)
    \/ \E we \in SuggestedExercises : StartSession(we)
    \/ \E parsed \in dancerSplit : StartSessionApp(parsed)
    \/ \E exercise \in Exercises, fieldReps \in {Blank, wReps},
          fieldWeight \in {Blank, wWeight} :
            Prefill(exercise, fieldReps, fieldWeight)

SuggestSpec == Init /\ [][NextSuggest]_vars

\* The exercises the three suggestion sites are compared on.
PolicyExercises ==
    {we \in SuggestedExercises : we.name = "Pallof Press"}
    \cup {[name |-> "Press 8-12", timed |-> FALSE, seconds |-> 0, sets |-> 1,
           repRange |-> <<8, 12>>]}

\* The three suggestion sites over one log.
NextPolicy ==
    \/ /\ Len(workouts) < MaxPrior
       /\ \E name \in {"Pallof Press", "Press 8-12"}, reps \in TypedReps,
             weight \in {4000, Blank}, date \in Dates :
               ManualInsert(name, 1, reps, weight, date)
    \/ \E we \in PolicyExercises : StartSession(we)
    \/ ApplyProgressiveOverload
    \/ \E exercise \in {[name |-> we.name, defaultRepRange |-> we.repRange] :
                            we \in PolicyExercises},
          fieldReps \in {Blank, wReps}, fieldWeight \in {Blank, wWeight} :
            Prefill(exercise, fieldReps, fieldWeight)

PolicySpec == Init /\ [][NextPolicy]_vars

\* The session dates of a log that is not written in date order.
SessionDates == {1, 2}

\* Backdated entries: entries are logged under either date, the date of an
\* entry is edited, and sessions are started over the log.
NextDated ==
    \/ /\ Len(workouts) < MaxPrior
       /\ \E reps \in TypedReps, weight \in {4000, Blank}, date \in SessionDates :
               ManualInsert("Pallof Press", 1, reps, weight, date)
    \/ \E id \in Ids(workouts), date \in SessionDates :
            SaveEdit(id, [workouts[IndexOf(workouts, id)] EXCEPT !.date = date])
    \/ \E we \in {we \in SuggestedExercises :
                     we.name = "Pallof Press" /\ we.repRange = <<8, 12>>} :
            StartSession(we)

DatedSpec == Init /\ [][NextDated]_vars

\* The circuit of a circuit session: circuitSpec, one station.
Circuit == [rounds |-> 1, stations |-> <<[label |-> "Plank", seconds |-> 60]>>]

\* What circuitManual[i] can hold for a station: nothing (the fields were
\* never touched), or a reps and a weight field that hold a number or "".
CircuitManuals ==
    {EmptyObject} \cup [reps : {Blank, 12}] \cup [weight : {Blank, 4000}]
    \cup [reps : {Blank, 12}, weight : {Blank, 4000}]

\* The entries "Finish & Save Now" pushes for station i, manual being
\* circuitManual[i] || {}; Number(undefined) is NaN, Number("") is 0.
StationEntries(st, manual, first, date, u) ==
    LET timedEntry == NewEntry(first + 1, date, st.label \o " (sec)", 1,
                               st.seconds * Circuit.rounds, Blank)
        repsIsNaN == "reps" \notin DOMAIN manual
        weightIsNaN == "weight" \notin DOMAIN manual
    IN  IF repsIsNaN /\ weightIsNaN THEN <<timedEntry>>
        ELSE <<timedEntry,
               NewEntry(first + 2, date, st.label, Circuit.rounds,
                        IF repsIsNaN THEN 0 ELSE NumberOf(manual.reps),
                        IF weightIsNaN THEN Blank
                        ELSE SessionKg(NumberOf(manual.weight), u))>>

\* The "Finish & Save Now" button of a circuit session.
CircuitFinishNow(manual, date) ==
    LET auto == StationEntries(Circuit.stations[1], manual, nextId, date, unit)
        withPR == markPRsBeforeInsert(workouts, auto)
    IN  /\ nextId + Len(auto) <= MaxEntries
        /\ workouts' = Prepend(withPR, workouts)
        /\ nextId' = nextId + Len(auto)
        /\ batches' = <<Len(auto)>> \o batches
        /\ lastOp' = [op |-> "circuit", manual |-> manual]
        /\ UNCHANGED <<runner, unit, wReps, wWeight, sessionPlan>>

\* The entries the final review of CircuitRunner can hold at "Save Workout"
\* after the one station ran: the entry the runner pushed, with the weight
\* the user typed into the Weight field, if any (parseFloat of the field).
ReviewedEntries(first, date) ==
    LET st == Circuit.stations[1]
    IN  {<<NewEntry(first + 1, date, st.label \o " (sec)", 1, st.seconds, weight)>> :
            weight \in TypedWeights \cup {Blank}}

\* onFinish(entries) of the CircuitRunner of the app: "Save Workout".
CircuitRunnerFinish(entries) ==
    /\ nextId + Len(entries) <= MaxEntries
    /\ workouts' = Prepend(markPRsBeforeInsert(workouts, entries), workouts)
    /\ nextId' = nextId + Len(entries)
    /\ batches' = <<Len(entries)>> \o batches
    /\ lastOp' = [op |-> "runner"]
    /\ UNCHANGED <<runner, unit, wReps, wWeight, sessionPlan>>

\* Every way a typed weight gets into the log, under the unit of the profile.
NextWeights ==
    \/ /\ Len(workouts) < MaxPrior
       /\ \E reps \in TypedReps, weight \in TypedWeights \cup {Blank}, date \in Dates :
               ManualInsert("Pallof Press", 1, reps, weight, date)
    \/ \E we \in {we \in SuggestedExercises :
                     we.name = "Pallof Press" /\ we.repRange = <<8, 12>>} :
            StartSession(we)
    \/ /\ sessionPlan # <<>>
       /\ Len(workouts) < MaxPrior
       /\ \E rows \in RowsOf(sessionPlan[1]), date \in Dates :
            FinishSessionAndSave(rows, date)
    \/ /\ Len(workouts) < MaxPrior
       /\ \E manual \in CircuitManuals, date \in Dates : CircuitFinishNow(manual, date)
    \/ /\ Len(workouts) < MaxPrior
       /\ \E date \in Dates :
            \E entries \in ReviewedEntries(nextId, date) : CircuitRunnerFinish(entries)
    \/ \E id \in Ids(workouts) :
            \E patch \in {d \in Drafts(workouts[IndexOf(workouts, id)], unit) :
                              d.reps = workouts[IndexOf(workouts, id)].reps} :
                SaveEdit(id, patch)

WeightsSpec == Init /\ [][NextWeights]_vars

-----------------------------------------------------------------------------
(* Weekly aggregation: src/src/lib/utils.ts *)

\* Dates are days of September 2025 ("2025-09-01", a Monday, is 1); day 0 and
\* below are the last days of August.  The offsets from UTC, in hours, of the
\* time zones the app runs in.
UtcOffsets == {-5, 1}

\* The year, month and day a Date of that day of September shows (getFullYear,
\* getMonth() + 1, getDate): the fields of the "YYYY-MM-DD" label.
YearMonthDay(n) ==
    IF n < 1 THEN <<2025, 8, 31 + n>>
    ELSE IF n <= 30 THEN <<2025, 9, n>>
    ELSE <<2025, 10, n - 30>>

\* A label of the month of the date instead of its week.
getWeekLabel_Month(date, offset) ==
    LET ymd == YearMonthDay(IF offset < 0 THEN date - 1 ELSE date)
    IN  <<ymd[1], ymd[2], 1>>

\* getWeekLabel(dateString): new Date("YYYY-MM-DD") is midnight UTC of that
\* day, which is the evening of the day before in a zone behind UTC; getDate
\* and getDay read the local day, and setDate(first) goes back to its Sunday.
getWeekLabel(date, offset) ==
    LET local == IF offset < 0 THEN date - 1 ELSE date
        getDay == (local + 7) % 7
        first == local - getDay
    IN  YearMonthDay(first)

\* a.localeCompare(b) < 0 for two labels: the zero-padded fields compare as
\* the text does.
LabelBefore(a, b) ==
    \/ a[1] < b[1]
    \/ a[1] = b[1] /\ a[2] < b[2]
    \/ a[1] = b[1] /\ a[2] = b[2] /\ a[3] < b[3]

\* The index of the bucket of that week in a list of buckets, 0 if none.
WeekIndex(buckets, week) ==
    IF \E i \in 1..Len(buckets) : buckets[i].week = week
    THEN CHOOSE i \in 1..Len(buckets) : buckets[i].week = week
    ELSE 0

\* One iteration of the loop of aggregatePRsByWeek: grouped after workout;
\* grouped[exercise] lists the buckets in the order their keys were created.
aggregateStep(grouped, workout, offset) ==
    IF workout.name = "" \/ workout.sets = 0 THEN grouped
    ELSE LET week == getWeekLabel(workout.date, offset)
             exercise == workout.name
             weight == IF HasWeight(workout) THEN workout.weightKg ELSE 0
             volume == weight * workout.reps * workout.sets
             old == IF exercise \in DOMAIN grouped THEN grouped[exercise] ELSE <<>>
             k == WeekIndex(old, week)
             max(a, b) == IF a >= b THEN a ELSE b
             new == IF k = 0
                    THEN Append(old, [week |-> week, volume |-> volume, weight |-> weight])
                    ELSE [old EXCEPT ![k] = [week |-> week,
                                             volume |-> max(old[k].volume, volume),
                                             weight |-> max(old[k].weight, weight)]]
         IN  [e \in {exercise} |-> new] @@ grouped

RECURSIVE aggregateUpTo(_, _, _)
aggregateUpTo(ws, k, offset) ==
    IF k = 0 THEN EmptyObject
    ELSE aggregateStep(aggregateUpTo(ws, k - 1, offset), ws[k], offset)

\* .sort((a, b) => a.week.localeCompare(b.week)): a stable sort, the first of
\* the least labels first.
RECURSIVE sortByWeek(_)
sortByWeek(buckets) ==
    IF Len(buckets) <= 1 THEN buckets
    ELSE LET i == CHOOSE i \in 1..Len(buckets) :
                     \A j \in 1..Len(buckets) :
                         \/ LabelBefore(buckets[i].week, buckets[j].week)
                         \/ (~LabelBefore(buckets[j].week, buckets[i].week) /\ i <= j)
         IN  <<buckets[i]>>
             \o sortByWeek(SubSeq(buckets, 1, i - 1) \o SubSeq(buckets, i + 1, Len(buckets)))

\* Object.values(grouped[exercise]) left in the order the keys were created.
aggregatePRsByWeek_Unsorted(ws, offset) == aggregateUpTo(ws, Len(ws), offset)

\* aggregatePRsByWeek(workouts): per exercise, the buckets sorted by week.
aggregatePRsByWeek(ws, offset) ==
    LET grouped == aggregateUpTo(ws, Len(ws), offset)
    IN  [exercise \in DOMAIN grouped |-> sortByWeek(grouped[exercise])]

\* The Progress tab: useMemo(() => aggregatePRsByWeek(workouts), [workouts]),
\* recomputed from the log at every render, in the time zone of the browser.
weeklyData(offset) == aggregatePRsByWeek(workouts, offset)

\* Logs whose dates span three weeks: Monday the 1st, Sunday the 7th, Monday
\* the 8th and Monday the 15th of September 2025.  The Sets field of the edit
\* form is Number(value) || 0, so an edit can clear it to 0.
WeekDates == {1, 7, 8, 15}
WeeklyNames == {"Bench Press", "Pallof Press"}

NextWeekly ==
    \/ \E name \in WeeklyNames, weight \in TypedWeights \cup {Blank}, date \in WeekDates :
            ManualInsert(name, 1, NumberOf(wReps), weight, date)
    \/ \E id \in Ids(workouts) :
            /\ workouts[IndexOf(workouts, id)].sets # 0
            /\ SaveEdit(id, [workouts[IndexOf(workouts, id)] EXCEPT !.sets = 0])

\* The weekly data is in kg whatever the display unit: logs kept in kg.
InitWeekly == Init /\ unit = "kg"

WeeklySpec == InitWeekly /\ [][NextWeekly]_vars

-----------------------------------------------------------------------------
(* Plan adherence: the Progress tab *)

\* Math.ceil(a / b) for a >= 0 and b > 0.
MathCeil(a, b) == (a + b - 1) \div b

\* countDaysBetween(startISO, endISO): the two local midnights are |end -
\* start| days apart, an hour more or less when a clock change lies between
\* them; the difference in hours, divided by 24 and rounded up.
countDaysBetween(start, end, clockChange) ==
    LET days == IF end >= start THEN end - start ELSE start - end
        diffTime == IF days = 0 THEN 0 ELSE 24 * days + clockChange
    IN  MathCeil(diffTime, 24)

\* The cases of the hours clocks change by between the two dates.
ClockChanges == {-1, 0, 1}

\* Metrics that count every entry of the log as a completed workout.
planMetrics_Entries(ws, activePlan, programStartDate, daysPerWeek, today, clockChange) ==
    IF activePlan = <<>> \/ programStartDate = Blank THEN <<>>
    ELSE LET daysSinceStart == countDaysBetween(programStartDate, today, clockChange)
             expectedDaysPerWeek ==
                 IF daysPerWeek # Blank /\ daysPerWeek # 0 THEN daysPerWeek
                 ELSE IF "daysPerWeek" \in DOMAIN activePlan[1]
                         /\ activePlan[1].daysPerWeek # 0
                      THEN activePlan[1].daysPerWeek
                      ELSE 4
             weeksElapsed == daysSinceStart \div 7
             expectedWorkouts == weeksElapsed * expectedDaysPerWeek
             uniqueWorkoutDates == {ws[i].date : i \in 1..Len(ws)}
             completedWorkouts == Len(ws)
             completionRate ==
                 IF expectedWorkouts > 0
                 THEN MathRound(MulDiv(completedWorkouts, 100, expectedWorkouts))
                 ELSE 0
         IN  <<[completedWorkouts |-> completedWorkouts,
                expectedWorkouts |-> expectedWorkouts,
                completionRate |-> completionRate,
                weeksElapsed |-> weeksElapsed]>>

\* planMetrics of the Progress tab: <<>> for null, else the metrics of the
\* Plan Adherence card.  activePlan is <<>> for null, daysPerWeek and
\* programStartDate are Blank when undefined, daysPerWeek 0 when typed so.
planMetrics(ws, activePlan, programStartDate, daysPerWeek, today, clockChange) ==
    IF activePlan = <<>> \/ programStartDate = Blank THEN <<>>
    ELSE LET daysSinceStart == countDaysBetween(programStartDate, today, clockChange)
             expectedDaysPerWeek ==
                 IF daysPerWeek # Blank /\ daysPerWeek # 0 THEN daysPerWeek
                 ELSE IF "daysPerWeek" \in DOMAIN activePlan[1]
                         /\ activePlan[1].daysPerWeek # 0
                      THEN activePlan[1].daysPerWeek
                      ELSE 4
             weeksElapsed == daysSinceStart \div 7
             expectedWorkouts == weeksElapsed * expectedDaysPerWeek
             uniqueWorkoutDates == {ws[i].date : i \in 1..Len(ws)}
             completedWorkouts == Cardinality(uniqueWorkoutDates)
             completionRate ==
                 IF expectedWorkouts > 0
                 THEN MathRound(MulDiv(completedWorkouts, 100, expectedWorkouts))
                 ELSE 0
         IN  <<[completedWorkouts |-> completedWorkouts,
                expectedWorkouts |-> expectedWorkouts,
                completionRate |-> completionRate,
                weeksElapsed |-> weeksElapsed]>>

\* The Plan Adherence card: the text of the rate and the width of its bar, in
\* percent; nothing is shown while planMetrics is null.
AdherenceCard(metrics) ==
    IF metrics = <<>> THEN <<>>
    ELSE LET max(a, b) == IF a >= b THEN a ELSE b
             min(a, b) == IF a <= b THEN a ELSE b
         IN  <<[text |-> metrics[1].completionRate,
                width |-> min(100, max(0, metrics[1].completionRate))]>>

\* The plans, start dates, days per week and days the tab is rendered with.
ActivePlans == {<<>>, <<[name |-> "Split"]>>, <<[name |-> "Split", daysPerWeek |-> 3]>>}
StartDates == {Blank, 1, 2}
DaysPerWeek == {Blank, 0, 1}
Todays == {8, 15}

\* The rest of planMetrics: the counts of the current week.  now is the local
\* day of the render; weekStartISO is the UTC date of the local midnight that
\* starts the week's Sunday, the Saturday before it in a zone ahead of UTC.
thisWeekMetrics(ws, now, offset) ==
    LET dayOfWeek == now % 7
        weekStartDate == now - dayOfWeek
        weekEndDate == weekStartDate + 6
        weekStartISO == YearMonthDay(IF offset > 0 THEN weekStartDate - 1
                                     ELSE weekStartDate)
        uniqueWorkoutDates == {ws[i].date : i \in 1..Len(ws)}
    IN  [thisWeekWorkouts |->
             Cardinality({date \in uniqueWorkoutDates :
                             ~LabelBefore(YearMonthDay(date), weekStartISO)}),
         thisWeekPRs |->
             Cardinality({i \in 1..Len(ws) :
                             /\ ws[i].date >= weekStartDate
                             /\ ws[i].date <= weekEndDate
                             /\ (ws[i].isPRMaxWeight \/ ws[i].isPRVolume)})]

\* A render of the Progress tab: the metrics and the card it shows.
ShowProgress(activePlan, programStartDate, daysPerWeek, today, clockChange) ==
    LET metrics == planMetrics(workouts, activePlan, programStartDate, daysPerWeek,
                               today, clockChange)
    IN  /\ \E offset \in UtcOffsets :
               lastOp' = [op |-> "progress", activePlan |-> activePlan,
                          programStartDate |-> programStartDate,
                          daysPerWeek |-> daysPerWeek, today |-> today,
                          clockChange |-> clockChange, offset |-> offset,
                          planMetrics |-> metrics, card |-> AdherenceCard(metrics),
                          thisWeek |-> thisWeekMetrics(workouts, today, offset)]
        /\ UNCHANGED <<runner, workouts, unit, nextId, batches, wReps, wWeight, sessionPlan>>

NextAdherence ==
    \/ \E date \in WeekDates :
            ManualInsert("Bench Press", 1, NumberOf(wReps), Blank, date)
    \/ \E activePlan \in ActivePlans, programStartDate \in StartDates,
          daysPerWeek \in DaysPerWeek, today \in Todays, clockChange \in ClockChanges :
            ShowProgress(activePlan, programStartDate, daysPerWeek, today, clockChange)

AdherenceSpec == InitWeekly /\ [][NextAdherence]_vars

-----------------------------------------------------------------------------
(* Export and import: src/src/types.ts *)

\* The number NaN and the JSON value null, where a weight can be.
NaN == -2
Null == -3

\* The entries of the final review of the runner after a weight was typed
\* into the Weight field and cleared again: parseFloat("") is NaN.
ClearedEntries(first, date) ==
    LET st == Circuit.stations[1]
    IN  <<NewEntry(first + 1, date, st.label \o " (sec)", 1, st.seconds, NaN)>>

\* JSON.stringify of an entry and JSON.parse of the text: a property that is
\* absent stays absent, a string, a boolean and a finite number come back as
\* they were, and NaN is written as null.
stringifyEntry(w) ==
    [k \in DOMAIN w |-> IF k = "weightKg" /\ w[k] = NaN THEN Null ELSE w[k]]

\* The workouts array of the file exportJSON downloads, as JSON.parse reads
\* it back.
exportedWorkouts(ws) == [i \in 1..Len(ws) |-> stringifyEntry(ws[i])]

\* exportJSON(): the file holds the log.
ExportJSON ==
    /\ workouts # <<>>
    /\ lastOp' = [op |-> "export", file |-> exportedWorkouts(workouts)]
    /\ UNCHANGED <<runner, workouts, unit, nextId, batches, wReps, wWeight, sessionPlan>>

\* handleImportFile(e) with the file that was just exported:
\* setWorkouts(parsed.workouts).
HandleImportFile ==
    /\ lastOp.op = "export"
    /\ workouts' = lastOp.file
    /\ lastOp' = [op |-> "import"]
    /\ UNCHANGED <<runner, unit, nextId, batches, wReps, wWeight, sessionPlan>>

\* The log holds no weight that is NaN or null.
NumericWeights(ws) ==
    \A i \in 1..Len(ws) : HasWeight(ws[i]) => ws[i].weightKg \notin {NaN, Null}

\* Logs built by manual inserts and by the runner, exported and imported; the
\* PR records are modelled on numbers, so entries are added to numeric logs.
NextImport ==
    \/ /\ NumericWeights(workouts)
       /\ \E name \in WeeklyNames, weight \in TypedWeights \cup {Blank}, date \in SessionDates :
               ManualInsert(name, 1, NumberOf(wReps), weight, date)
    \/ /\ NumericWeights(workouts)
       /\ \E date \in SessionDates :
               \/ \E entries \in ReviewedEntries(nextId, date) : CircuitRunnerFinish(entries)
               \/ CircuitRunnerFinish(ClearedEntries(nextId, date))
    \/ ExportJSON
    \/ HandleImportFile

ImportSpec == Init /\ [][NextImport]_vars

-----------------------------------------------------------------------------
(* The arguments of markPRsBeforeInsert: src/src/lib/pr.ts *)

\* A marking that writes the flags into the incoming entries themselves and
\* returns them.
markPRsBeforeInsertCall_InPlace(history, incoming) ==
    [history |-> history,
     incoming |-> markPRsBeforeInsert(history, incoming),
     returned |-> markPRsBeforeInsert(history, incoming)]

\* A call of markPRsBeforeInsert(history, incoming): the two arrays as they
\* are after the call and the array returned.  computePRs reads history into
\* a map of its own and incoming.map builds { ...w, isPRMaxWeight, isPRVolume }
\* for each w: nothing is assigned to an entry of either array.
markPRsBeforeInsertCall(history, incoming) ==
    [history |-> history,
     incoming |-> incoming,
     returned |-> markPRsBeforeInsert(history, incoming)]

\* "Add Sets/Reps" with the call spelled out: the log is the returned entries
\* before the array that was passed as history.
AddSetsReps(name, weight, date) ==
    LET entry == NewEntry(nextId + 1, date, name, 1, NumberOf(wReps),
                          IF weight = Blank THEN Blank ELSE StoredKg(weight, unit))
        call == markPRsBeforeInsertCall(workouts, <<entry>>)
    IN  /\ nextId < MaxEntries
        /\ workouts' = Prepend(call.returned, call.history)
        /\ nextId' = nextId + 1
        /\ batches' = <<1>> \o batches
        /\ wReps' = DefaultReps
        /\ wWeight' = Blank
        /\ lastOp' = [op |-> "mark", incoming |-> <<entry>>, after |-> call.incoming,
                      returned |-> call.returned]
        /\ UNCHANGED <<runner, unit, sessionPlan>>

NextFrame ==
    \/ \E name \in WeeklyNames, weight \in TypedWeights \cup {Blank}, date \in SessionDates :
            AddSetsReps(name, weight, date)
    \/ \E id \in Ids(workouts) : RemoveWorkout(id)

FrameSpec == Init /\ [][NextFrame]_vars

-----------------------------------------------------------------------------
(* Plan calendar: src/src/components/PlanCalendar.tsx *)

WEEKDAYS == <<"Sun", "Mon", "Tue", "Wed", "Thu", "Fri", "Sat">>

\* getWeekday(d) of the local date of a day of September 2025.
getWeekday(d) == WEEKDAYS[(d % 7) + 1]

\* countEligibleDaysBetween(startISO, targetISO, preferred): the loop from
\* start to end, a day at a time, counting the preferred weekdays.
RECURSIVE countEligibleFrom(_, _, _)
countEligibleFrom(d, end, preferred) ==
    IF d > end THEN 0
    ELSE (IF getWeekday(d) \in preferred THEN 1 ELSE 0)
         + countEligibleFrom(d + 1, end, preferred)

countEligibleDaysBetween(start, target, preferred) ==
    IF target < start THEN 0 ELSE countEligibleFrom(start, target, preferred)

\* null, where a plan day can be.
NoDay == 0

\* A numbering that starts the cycle at the count itself.
getPlannedDayForDate_FromK(date, planLengthDays, preferredDays, programStartDate) ==
    IF programStartDate = Blank \/ planLengthDays <= 0 THEN NoDay
    ELSE IF getWeekday(date) \notin preferredDays THEN NoDay
    ELSE IF LabelBefore(YearMonthDay(date), YearMonthDay(programStartDate)) THEN NoDay
    ELSE LET k == countEligibleDaysBetween(programStartDate, date, preferredDays)
         IN  IF k <= 0 THEN NoDay ELSE (k % planLengthDays) + 1

\* getPlannedDayForDate(dateISO, planLengthDays, preferredDays,
\* programStartDate); programStartDate is Blank when undefined.
getPlannedDayForDate(date, planLengthDays, preferredDays, programStartDate) ==
    IF programStartDate = Blank \/ planLengthDays <= 0 THEN NoDay
    ELSE IF getWeekday(date) \notin preferredDays THEN NoDay
    ELSE IF LabelBefore(YearMonthDay(date), YearMonthDay(programStartDate)) THEN NoDay
    ELSE LET k == countEligibleDaysBetween(programStartDate, date, preferredDays)
         IN  IF k <= 0 THEN NoDay ELSE ((k - 1) % planLengthDays) + 1

\* The days the calendar shows, and the plans it is rendered with.
CalendarDays == 1..16
PlanLengths == 0..3
PreferredDays == SUBSET {"Sun", "Mon", "Thu"}
ProgramStarts == {Blank, 1, 3, 8}

\* A render of the calendar: the plan day of each day shown.
ShowCalendar(planLengthDays, preferredDays, programStartDate) ==
    /\ lastOp' = [op |-> "calendar", planLengthDays |-> planLengthDays,
                  preferredDays |-> preferredDays,
                  programStartDate |-> programStartDate,
                  planned |-> [d \in CalendarDays |->
                                  getPlannedDayForDate(d, planLengthDays, preferredDays,
                                                       programStartDate)]]
    /\ UNCHANGED <<runner, workouts, unit, nextId, batches, wReps, wWeight, sessionPlan>>

NextCalendar ==
    \E planLengthDays \in PlanLengths, preferredDays \in PreferredDays,
       programStartDate \in ProgramStarts :
        ShowCalendar(planLengthDays, preferredDays, programStartDate)

CalendarSpec == Init /\ [][NextCalendar]_vars

-----------------------------------------------------------------------------
(* Two saves from one render: src/src/types.ts *)

\* finishSessionAndSave() called a second time before the component has
\* rendered again (RestTimer calls onDone from inside a state updater, which
\* React may run twice): the closure still holds the log and the session of
\* the render, so the same entries are built, with new ids, and marked against
\* the log of the render, and the updater prepends them to the log as it is.
FinishSessionAndSaveAgain ==
    LET n == Head(batches)
        rendered == SubSeq(workouts, n + 1, Len(workouts))
        entries == [i \in 1..n |->
                       [k \in DOMAIN workouts[i] \ {"isPRMaxWeight", "isPRVolume"} |->
                           IF k = "id" THEN nextId + i ELSE workouts[i][k]]]
        withPR == markPRsBeforeInsert(rendered, entries)
    IN  /\ lastOp.op = "finish"
        /\ nextId + n <= MaxEntries
        /\ workouts' = Prepend(withPR, workouts)
        /\ nextId' = nextId + n
        /\ batches' = <<n>> \o batches
        /\ lastOp' = [op |-> "finishAgain"]
        /\ UNCHANGED <<runner, unit, wReps, wWeight, sessionPlan>>

NextStale ==
    \/ /\ Len(workouts) < MaxPrior
       /\ \E reps \in TypedReps, weight \in TypedWeights \cup {Blank}, date \in Dates :
               ManualInsert("Pallof Press", 1, reps, weight, date)
    \/ \E we \in {we \in SuggestedExercises :
                     we.name = "Pallof Press" /\ we.repRange = <<8, 12>>} :
            StartSession(we)
    \/ /\ sessionPlan # <<>>
       /\ \E rows \in RowsOf(sessionPlan[1]), date \in Dates :
            FinishSessionAndSave(rows, date)
    \/ FinishSessionAndSaveAgain

StaleSpec == Init /\ [][NextStale]_vars

-----------------------------------------------------------------------------
(* Circuit runner: src/src/components/CircuitRunner.tsx *)

\* The most seconds the timer may show after "+10s".
MaxRemaining == 13

\* The most round-rest timeouts pending at once.
MaxTimeouts == 2

\* The most entries entriesRef collects before the runner is reset.
MaxCollected == 5

RunnerStations ==
    <<[label |-> "Plank", seconds |-> 2], [label |-> "Side Plank", seconds |-> 3]>>

\* The circuits the runner is given; roundRestSec 0 stands for an absent one
\* too, the code tests "circuit.roundRestSec && circuit.roundRestSec > 0".
RunnerCircuits ==
    [rounds : {1, 2}, stations : {RunnerStations},
     stationRestSec : {0, 1}, roundRestSec : {0, 2}]

\* The state of a freshly rendered runner: the useState initial values, an
\* empty entriesRef, no interval and no timeout.
MountedRunner(circuit) ==
    [mounted |-> TRUE, circuit |-> circuit, round |-> 1, stationIndex |-> 0,
     phase |-> "work", remaining |-> circuit.stations[1].seconds,
     running |-> FALSE, finished |-> FALSE, editableEntries |-> <<>>,
     entries |-> <<>>,       \* entriesRef.current: the names pushed
     interval |-> FALSE,     \* the effect's setInterval is alive
     tickDue |-> FALSE,      \* a second has passed since the interval's last tick
     timeouts |-> <<>>]      \* pending round-rest timeouts, oldest first

\* The effect with deps [running, phase, stationIndex, round]: when one of
\* them changed, the cleanup clears the old interval and a new one is set
\* if running; otherwise the interval is as the handler left it.
useEffectInterval(old, new) ==
    IF <<old.running, old.phase, old.stationIndex, old.round>>
       # <<new.running, new.phase, new.stationIndex, new.round>>
    THEN [new EXCEPT !.interval = new.running, !.tickDue = FALSE]
    ELSE new

\* advanceToNext without the test for the last round.
advanceToNext_NoLastRound(r) ==
    LET c == r.circuit
    IN  IF r.stationIndex < Len(c.stations) - 1
        THEN [r EXCEPT !.stationIndex = @ + 1, !.phase = "work",
                       !.remaining = c.stations[r.stationIndex + 2].seconds]
        ELSE [r EXCEPT !.round = @ + 1, !.stationIndex = 0, !.phase = "work",
                       !.remaining = c.stations[1].seconds]

\* advanceToNext of the runner r: the next station, else the next round
\* (after a round rest whose timeout is set and never cleared), else the
\* final review.
advanceToNext(r) ==
    LET c == r.circuit
        isLastStation == r.stationIndex >= Len(c.stations) - 1
        isLastRound == r.round >= c.rounds
    IN  IF ~isLastStation
        THEN [r EXCEPT !.stationIndex = @ + 1, !.phase = "work",
                       !.remaining = c.stations[r.stationIndex + 2].seconds]
        ELSE IF ~isLastRound
        THEN IF c.roundRestSec > 0
             THEN [r EXCEPT !.phase = "rest", !.remaining = c.roundRestSec,
                            !.timeouts = Append(@, [due |-> c.roundRestSec,
                                                    nextRound |-> r.round + 1])]
             ELSE [r EXCEPT !.round = @ + 1, !.stationIndex = 0, !.phase = "work",
                            !.remaining = c.stations[1].seconds]
        ELSE [r EXCEPT !.editableEntries = r.entries, !.finished = TRUE,
                       !.running = FALSE]

\* The interval callback's updater on the runner r: count down, and at one
\* second or less clear the interval, push the station's entry after a work
\* phase, and start the station rest or advance. The updater returns 0 and
\* the setRemaining calls it makes are applied after that.
intervalCallback(r) ==
    LET c == r.circuit
        st == c.stations[r.stationIndex + 1]
        cleared == [r EXCEPT !.interval = FALSE, !.remaining = 0]
        pushed == [cleared EXCEPT !.entries = Append(@, st.label \o " (sec)")]
    IN  IF r.remaining <= 1
        THEN IF r.phase = "work"
             THEN IF c.stationRestSec > 0 /\ r.stationIndex < Len(c.stations) - 1
                  THEN [pushed EXCEPT !.phase = "rest", !.remaining = c.stationRestSec]
                  ELSE advanceToNext(pushed)
             ELSE advanceToNext(cleared)
        ELSE [r EXCEPT !.remaining = @ - 1]

\* A round-rest timeout is due.
TimeoutDue == runner.timeouts # <<>> /\ Head(runner.timeouts).due = 0

\* The circuit session renders the runner for a circuit.
MountRunner(circuit) ==
    /\ ~runner.mounted
    /\ runner' = MountedRunner(circuit)
    /\ lastOp' = [op |-> "mount"]
    /\ UNCHANGED <<workouts, unit, nextId, batches, wReps, wWeight, sessionPlan>>

\* The Start / Pause button.
StartPause ==
    /\ runner.mounted
    /\ runner' = useEffectInterval(runner, [runner EXCEPT !.running = ~@])
    /\ lastOp' = [op |-> IF runner.running THEN "pause" ELSE "start"]
    /\ UNCHANGED <<workouts, unit, nextId, batches, wReps, wWeight, sessionPlan>>

\* The Reset button; the pending timeouts stay.
ResetRunner ==
    /\ runner.mounted
    /\ runner' = useEffectInterval(runner,
                     [runner EXCEPT !.running = FALSE, !.round = 1, !.stationIndex = 0,
                                    !.phase = "work",
                                    !.remaining = runner.circuit.stations[1].seconds,
                                    !.entries = <<>>, !.finished = FALSE,
                                    !.editableEntries = <<>>])
    /\ lastOp' = [op |-> "reset"]
    /\ UNCHANGED <<workouts, unit, nextId, batches, wReps, wWeight, sessionPlan>>

\* The Skip button: advanceToNext on the rendered state.
SkipStation ==
    /\ runner.mounted
    /\ Len(advanceToNext(runner).timeouts) <= MaxTimeouts
    /\ runner' = useEffectInterval(runner, advanceToNext(runner))
    /\ lastOp' = [op |-> "skip"]
    /\ UNCHANGED <<workouts, unit, nextId, batches, wReps, wWeight, sessionPlan>>

\* The -10s button.
Minus10 ==
    /\ runner.mounted
    /\ runner.remaining > 0
    /\ runner' = [runner EXCEPT !.remaining = IF @ > 10 THEN @ - 10 ELSE 0]
    /\ lastOp' = [op |-> "minus10"]
    /\ UNCHANGED <<workouts, unit, nextId, batches, wReps, wWeight, sessionPlan>>

\* The +10s button.
Plus10 ==
    /\ runner.mounted
    /\ runner.remaining + 10 <= MaxRemaining
    /\ runner' = [runner EXCEPT !.remaining = @ + 10]
    /\ lastOp' = [op |-> "plus10"]
    /\ UNCHANGED <<workouts, unit, nextId, batches, wReps, wWeight, sessionPlan>>

\* One second passes: every pending timeout is a second nearer and the
\* interval, if alive, has a tick to deliver. Callbacks that are due run
\* before more time passes.
Second ==
    /\ runner.mounted
    /\ runner.interval \/ runner.timeouts # <<>>
    /\ ~runner.tickDue /\ ~TimeoutDue
    /\ runner' = [runner EXCEPT
                     !.timeouts = [i \in 1..Len(@) |-> [@[i] EXCEPT !.due = @ - 1]],
                     !.tickDue = runner.interval]
    /\ lastOp' = [op |-> "second"]
    /\ UNCHANGED <<workouts, unit, nextId, batches, wReps, wWeight, sessionPlan>>

\* The oldest round-rest timeout fires, running or not: the next round
\* starts at its first station.
RoundRestTimeout ==
    /\ runner.mounted
    /\ TimeoutDue
    /\ runner' = useEffectInterval(runner,
                     [runner EXCEPT !.round = Head(runner.timeouts).nextRound,
                                    !.stationIndex = 0, !.phase = "work",
                                    !.remaining = runner.circuit.stations[1].seconds,
                                    !.timeouts = Tail(@)])
    /\ lastOp' = [op |-> "timeout"]
    /\ UNCHANGED <<workouts, unit, nextId, batches, wReps, wWeight, sessionPlan>>

\* The interval ticks. A timeout due at the same second runs first: it was
\* set by the callback that began the rest, the interval by the effect of
\* the render after it, both with the same delay.
IntervalTick ==
    /\ runner.mounted
    /\ runner.interval /\ runner.tickDue /\ ~TimeoutDue
    /\ Len(intervalCallback(runner).entries) <= MaxCollected
    /\ Len(intervalCallback(runner).timeouts) <= MaxTimeouts
    /\ runner' = useEffectInterval(runner,
                     [intervalCallback(runner) EXCEPT !.tickDue = FALSE])
    /\ lastOp' = [op |-> "tick"]
    /\ UNCHANGED <<workouts, unit, nextId, batches, wReps, wWeight, sessionPlan>>

\* The runner with every button of its controls.
NextRunner ==
    \/ \E circuit \in RunnerCircuits : MountRunner(circuit)
    \/ StartPause
    \/ ResetRunner
    \/ SkipStation
    \/ Minus10
    \/ Plus10
    \/ Second
    \/ RoundRestTimeout
    \/ IntervalTick

RunnerSpec == Init /\ [][NextRunner]_vars

\* Start pressed once on the fresh runner.
StartOnce ==
    /\ lastOp.op = "mount"
    /\ StartPause

\* The runner started once and then left alone.
NextLeftToRun ==
    \/ \E circuit \in RunnerCircuits : MountRunner(circuit)
    \/ StartOnce
    \/ Second
    \/ RoundRestTimeout
    \/ IntervalTick

\* Time passes and due callbacks run.
LeftToRunSpec ==
    /\ Init
    /\ [][NextLeftToRun]_vars
    /\ WF_vars(Second)
    /\ WF_vars(RoundRestTimeout)
    /\ WF_vars(IntervalTick)

-----------------------------------------------------------------------------
(* Definitions the claims are stated with *)

\* The step is an insert of a batch into the log.
InsertStep == lastOp'.op \in {"insert", "finish"}

\* The entry without its PR flags.
Unflagged(w) == [k \in DOMAIN w \ {"isPRMaxWeight", "isPRVolume"} |-> w[k]]

\* The entries of log h that have the name of entry e.
SameName(h, e) == {h[j] : j \in {j \in 1..Len(h) : h[j].name = e.name}}

\* The sequence without its element at index k.
Without(seq, k) == SubSeq(seq, 1, k - 1) \o SubSeq(seq, k + 1, Len(seq))

\* The index of the last entry of the batch that entry i of the log came with.
RECURSIVE BatchEnd(_, _, _)
BatchEnd(bs, i, done) ==
    IF i <= done + Head(bs) THEN done + Head(bs)
    ELSE BatchEnd(Tail(bs), i, done + Head(bs))

-----------------------------------------------------------------------------
(* C1: markPRsBeforeInsert evaluates every entry of a batch against the     *)
(* history alone: each inserted entry carries the flags it would get as the *)
(* only element of the batch.                                               *)
C1_BatchBaseline ==
    [][InsertStep =>
        \A i \in 1..Head(batches') :
            workouts'[i] = markPRsBeforeInsert(workouts, <<Unflagged(workouts'[i])>>)[1]]_vars

\* A session of two sets was saved over a history of the same exercise, and
\* both sets, of one weight, are max-weight PRs.
C1_Witness ==
    /\ lastOp.op = "finish"
    /\ Head(batches) = 2
    /\ Len(workouts) = 3
    /\ workouts[1].name = workouts[3].name /\ workouts[2].name = workouts[3].name
    /\ HasWeight(workouts[3])
    /\ workouts[1].isPRMaxWeight /\ workouts[2].isPRMaxWeight
    /\ workouts[1].weightKg = workouts[2].weightKg

(* C2: isPRMaxWeight of an inserted entry is true exactly when the entry    *)
(* has a weight and either no entry of its name in the history has one or   *)
(* its weight is strictly greater than the greatest of them.                *)
C2_MaxWeightFlag ==
    [][InsertStep =>
        \A i \in 1..Head(batches') :
            LET e == workouts'[i]
                prior == {h.weightKg : h \in {h \in SameName(workouts, e) : HasWeight(h)}}
            IN  e.isPRMaxWeight <=>
                    /\ HasWeight(e)
                    /\ \/ prior = {}
                       \/ \E m \in prior : (\A x \in prior : x <= m) /\ e.weightKg > m]_vars

\* An entry was inserted with the weight of the prior maximum: not a PR; and
\* one was inserted into an empty log with a weight: a PR.
C2_Witness ==
    /\ lastOp.op = "insert"
    /\ Len(workouts) = 2
    /\ workouts[1].name = workouts[2].name
    /\ HasWeight(workouts[1]) /\ HasWeight(workouts[2])
    /\ workouts[1].weightKg = workouts[2].weightKg
    /\ ~workouts[1].isPRMaxWeight
    /\ workouts[2].isPRMaxWeight

(* C3: isPRVolume of an inserted entry is true exactly when the history has *)
(* no entry of its name or its volume, reps * weightKg with 1 per rep for   *)
(* an entry without weight, is strictly greater than the greatest volume of *)
(* that name in the history.                                                *)
C3_VolumeFlag ==
    [][InsertStep =>
        \A i \in 1..Head(batches') :
            LET e == workouts'[i]
                vol(w) == IF HasWeight(w) THEN w.reps * w.weightKg ELSE w.reps * 100
                prior == {vol(h) : h \in SameName(workouts, e)}
            IN  e.isPRVolume <=>
                    \/ prior = {}
                    \/ \E m \in prior : (\A x \in prior : x <= m) /\ vol(e) > m]_vars

\* Two entries without weight: the later one has more reps and is a volume
\* PR, at one per rep.
C3_Witness ==
    /\ lastOp.op = "insert"
    /\ Len(workouts) = 2
    /\ workouts[1].name = workouts[2].name
    /\ ~HasWeight(workouts[1]) /\ ~HasWeight(workouts[2])
    /\ workouts[1].reps > workouts[2].reps
    /\ workouts[1].isPRVolume
    /\ ~workouts[1].isPRMaxWeight

C5_InsertPrepends ==
    [][InsertStep =>
        LET n == Head(batches')
        IN  /\ Len(workouts') = n + Len(workouts)
            /\ SubSeq(workouts', n + 1, Len(workouts')) = workouts
            /\ \A i \in 1..n :
                   /\ workouts'[i].id \notin Ids(workouts)
                   /\ {"isPRMaxWeight", "isPRVolume"} \subseteq DOMAIN workouts'[i]]_vars

\* An older entry keeps its max-weight flag below a newer, heavier entry.
C5_Witness ==
    /\ lastOp.op = "insert"
    /\ Len(workouts) = 3
    /\ workouts[1].name = workouts[3].name
    /\ workouts[3].isPRMaxWeight /\ workouts[1].isPRMaxWeight
    /\ workouts[1].weightKg > workouts[3].weightKg
    /\ workouts[1].id > workouts[2].id /\ workouts[2].id > workouts[3].id

(* C6: saving an edit replaces the entry at its index by the edited values *)
(* with the flags markPRsBeforeInsert gives them against the log without    *)
(* that entry; every other entry is unchanged.                              *)
C6_SaveEditReplaces ==
    [][lastOp'.op = "saveEdit" =>
        LET k == IndexOf(workouts, lastOp'.id)
        IN  /\ Len(workouts') = Len(workouts)
            /\ \A i \in 1..Len(workouts) : i # k => workouts'[i] = workouts[i]
            /\ Unflagged(workouts'[k]) = Unflagged(lastOp'.patch)
            /\ workouts'[k] =
                   markPRsBeforeInsert(Without(workouts, k), <<lastOp'.patch>>)[1]]_vars

\* The older of two entries was edited to the greater weight and is a PR
\* against the other, which keeps the flag it had.
C6_Witness ==
    /\ lastOp.op = "saveEdit"
    /\ Len(workouts) = 2
    /\ workouts[2].id = lastOp.id
    /\ HasWeight(workouts[1]) /\ HasWeight(workouts[2])
    /\ workouts[2].weightKg > workouts[1].weightKg
    /\ workouts[2].isPRMaxWeight /\ workouts[1].isPRMaxWeight

(* C7: computePRs gives, for each exact name of the log and no other, the   *)
(* greatest weight of the entries of that name that have one (no max weight *)
(* when none has) and the greatest volume of the entries of that name.      *)
C7_ComputePRsMaxima ==
    LET prs == computePRs(workouts)
        named(n) == {workouts[i] : i \in {i \in 1..Len(workouts) : workouts[i].name = n}}
        weights(n) == {w.weightKg : w \in {w \in named(n) : HasWeight(w)}}
        volumes(n) == {IF HasWeight(w) THEN w.reps * w.weightKg ELSE w.reps * 100 :
                          w \in named(n)}
    IN  /\ DOMAIN prs = {workouts[i].name : i \in 1..Len(workouts)}
        /\ \A n \in DOMAIN prs :
               /\ "maxWeightKg" \in DOMAIN prs[n] <=> weights(n) # {}
               /\ weights(n) # {} =>
                      /\ prs[n].maxWeightKg \in weights(n)
                      /\ \A x \in weights(n) : x <= prs[n].maxWeightKg
               /\ prs[n].maxVolumeKg \in volumes(n)
               /\ \A x \in volumes(n) : x <= prs[n].maxVolumeKg

\* The log holds "Pallof Press", "pallof press" and "Pallof Press (sec)", each with its own
\* records, the timed name without a max weight.
C7_Witness ==
    LET prs == computePRs(workouts)
    IN  /\ {"Pallof Press", "pallof press", "Pallof Press (sec)"} \subseteq DOMAIN prs
        /\ "maxWeightKg" \notin DOMAIN prs["Pallof Press (sec)"]
        /\ "maxWeightKg" \in DOMAIN prs["pallof press"]
        /\ prs["Pallof Press"] # prs["pallof press"]

-----------------------------------------------------------------------------
(* Suggestions *)

\* The indexes of the entries a suggestion for that exercise name can be made
\* from: the exact name, and not a timed entry.  The log is newest first.
Matching(name) ==
    {i \in 1..Len(workouts) : workouts[i].name = name /\ ~isTimedName(workouts[i].name)}

\* The most recent of them.
Prior(name) == workouts[CHOOSE i \in Matching(name) : \A j \in Matching(name) : i <= j]

\* The weight of entry w in the display unit, display-rounded; blank if none.
SameWeight(w) ==
    IF HasWeight(w) THEN roundDisplayUnit(fromKg(Whole(w.weightKg), unit), unit) ELSE Blank

\* The weight of entry w in the display unit plus the increment of that unit,
\* display-rounded; blank if none.
RaisedWeight(w) ==
    IF HasWeight(w)
    THEN LET shown == fromKg(Whole(w.weightKg), unit)
         IN  roundDisplayUnit([shown EXCEPT !.q = @ + PO_INCR(unit)], unit)
    ELSE Blank

\* The session plan was just built by buildSessionPlan for a sets/reps exercise.
PlanBuilt == lastOp.op = "startSession" /\ ~lastOp.we.timed

\* The manual log was just prefilled, its Reps and Weight fields untouched.
Prefilled == lastOp.op = "prefill" /\ lastOp.reps \in {Blank, DefaultReps} /\ lastOp.weight = Blank

\* Every set of the session plan has these reps and this weight.
PlanHas(reps, weight) ==
    \A j \in 1..Len(sessionPlan[1].sets) :
        sessionPlan[1].sets[j] = [reps |-> reps, weight |-> weight]

(* C8: when the most recent matching entry of a sets/reps exercise has reps *)
(* at or above repMax, the suggestion is repMin reps and the prior weight   *)
(* in the display unit plus 2.5 kg or 5 lb, display-rounded (blank when the *)
(* entry has no weight): in the session plan and in the manual-log prefill. *)
C8_AtMaxResetsAndRaises ==
    /\ PlanBuilt =>
          LET we == lastOp.we
          IN  (Matching(we.name) # {} /\ Prior(we.name).reps >= we.repRange[2]) =>
                  PlanHas(we.repRange[1], RaisedWeight(Prior(we.name)))
    /\ Prefilled =>
          LET ex == lastOp.exercise
          IN  (Matching(ex.name) # {} /\ Prior(ex.name).reps >= ex.defaultRepRange[2]) =>
                  /\ wReps = ex.defaultRepRange[1]
                  /\ wWeight = RaisedWeight(Prior(ex.name))

(* C9: when the most recent matching entry has reps below repMax, the       *)
(* suggestion is one rep more with the weight of that entry, converted and  *)
(* display-rounded, not increased: in buildSessionPlan and in startSession  *)
(* of src/src/App.tsx, whose repMax is the upper bound of the parsed line.  *)
C9_BelowMaxAddsRep ==
    /\ PlanBuilt =>
          LET we == lastOp.we
          IN  (Matching(we.name) # {} /\ Prior(we.name).reps < we.repRange[2]) =>
                  PlanHas(Prior(we.name).reps + 1, SameWeight(Prior(we.name)))
    /\ lastOp.op = "startSessionApp" =>
          LET parsed == lastOp.parsed
          IN  (Matching(parsed.name) # {} /\ Prior(parsed.name).reps < parsed.reps) =>
                  PlanHas(Prior(parsed.name).reps + 1, SameWeight(Prior(parsed.name)))

(* C10: when the log has no entry of the exact name of the exercise that is *)
(* not a timed "(sec)" entry, the suggestion is repMin reps and a blank     *)
(* weight; a "(sec)" entry is never the prior entry.                        *)
C10_NoPriorSuggestsMin ==
    /\ PlanBuilt =>
          LET we == lastOp.we
          IN  ~(\E i \in 1..Len(workouts) :
                    workouts[i].name = we.name /\ ~isTimedName(workouts[i].name))
                  => PlanHas(we.repRange[1], Blank)
    /\ Prefilled =>
          LET ex == lastOp.exercise
          IN  ~(\E i \in 1..Len(workouts) :
                    workouts[i].name = ex.name /\ ~isTimedName(workouts[i].name))
                  => wReps = ex.defaultRepRange[1] /\ wWeight = Blank

\* A session was started for a sets/reps exercise called "Pallof Press (sec)"
\* over a log whose only entries have that name and a weight: repMin, blank.
C10_Witness ==
    /\ PlanBuilt
    /\ lastOp.we.name = "Pallof Press (sec)"
    /\ Len(workouts) = 2
    /\ \A i \in 1..2 : workouts[i].name = "Pallof Press (sec)" /\ HasWeight(workouts[i])
    /\ sessionPlan[1].sets[1] = [reps |-> 8, weight |-> Blank]

(* C11: for one prior entry, rep range and unit, the manual-log prefill, the *)
(* plan of buildSessionPlan and the per-set suggestions of                  *)
(* applyProgressiveOverload are the same reps and the same weight.          *)
C11_ThreeSitesAgree ==
    [][/\ (lastOp.op = "startSession" /\ ~lastOp.we.timed
           /\ Matching(lastOp.we.name) # {} /\ lastOp'.op = "apply") =>
              \A j \in 1..Len(sessionPlan[1].sets) :
                  /\ sessionPlan'[1].sets[j].suggestedReps = sessionPlan[1].sets[j].reps
                  /\ sessionPlan'[1].sets[j].suggestedWeight = sessionPlan[1].sets[j].weight
       /\ (lastOp'.op = "prefill" /\ lastOp'.reps \in {Blank, DefaultReps}
           /\ lastOp'.weight = Blank /\ Matching(lastOp'.exercise.name) # {}) =>
              LET ex == lastOp'.exercise
                  plan == buildSessionPlan(workouts, ex.name, ex.defaultRepRange, unit)
              IN  wReps' = plan.reps /\ wWeight' = plan.weight]_vars

(* C12: the entry a suggestion is made from is the matching entry of the    *)
(* greatest date, the latest inserted of them when several have that date,  *)
(* also in a log whose entries were logged or edited out of date order.     *)
C12_PriorIsLatestDate ==
    PlanBuilt /\ Matching(lastOp.we.name) # {} =>
        LET m == Matching(lastOp.we.name)
            best == CHOOSE i \in m :
                       \A j \in m :
                           \/ workouts[i].date > workouts[j].date
                           \/ workouts[i].date = workouts[j].date
                              /\ workouts[i].id >= workouts[j].id
            next == buildSessionPlan(<<workouts[best]>>, lastOp.we.name,
                                     lastOp.we.repRange, unit)
        IN  PlanHas(next.reps, next.weight)

\* The numbers the weight field of the handler of the step can hold: typed
\* by the user (0 for a field left empty where the handler reads it with
\* Number), or prefilled by the app.
Typeable ==
    TypedWeights \cup SessionWeights \cup {0, 4000}
    \cup ({wWeight} \ {Blank})
    \cup (IF sessionPlan = <<>> THEN {}
          ELSE {sessionPlan[1].sets[j].weight : j \in 1..Len(sessionPlan[1].sets)} \ {Blank})

(* C13: on every path that logs or edits a weight typed in the display unit *)
(* (manual log, session sets, circuit station inputs, final review of the   *)
(* circuit runner, log edit) the stored weightKg is the typed number        *)
(* converted from the display unit to kg.                                   *)
C13_StoredInKg ==
    [][/\ lastOp'.op \in {"insert", "finish", "circuit", "runner"} =>
              \A i \in 1..Head(batches') :
                  HasWeight(workouts'[i]) =>
                      workouts'[i].weightKg \in {StoredKg(v, unit) : v \in Typeable}
       /\ lastOp'.op = "saveEdit" =>
              LET k == IndexOf(workouts, lastOp'.id)
              IN  HasWeight(workouts'[k]) =>
                      \/ HasWeight(workouts[k]) /\ workouts'[k].weightKg = workouts[k].weightKg
                      \/ workouts'[k].weightKg \in {StoredKg(v, unit) : v \in Typeable}]_vars

-----------------------------------------------------------------------------
(* Weekly aggregation claims *)

\* The entries aggregatePRsByWeek is given that carry a name and a set count.
Counted == {i \in 1..Len(workouts) : workouts[i].name # "" /\ workouts[i].sets # 0}

\* The "YYYY-MM-DD" fields of the Sunday on or before a date.
SundayOnOrBefore(date) == YearMonthDay(date - (date % 7))

\* The bucket of an exercise and week in the weekly data, <<>> if none.
BucketsOf(data, name, week) ==
    IF name \in DOMAIN data
    THEN SelectSeq(data[name], LAMBDA b : b.week = week)
    ELSE <<>>

\* C14: in every time zone, every counted entry of the log has, under its
\* name, a bucket keyed by the date of the Sunday on or before the entry's
\* date, and an exercise has as many buckets as its entries have
\* Sunday-to-Saturday weeks.
C14_BucketIsSundayWeek ==
    \A offset \in UtcOffsets :
        /\ \A i \in Counted :
               BucketsOf(weeklyData(offset), workouts[i].name,
                         SundayOnOrBefore(workouts[i].date)) # <<>>
        /\ \A name \in DOMAIN weeklyData(offset) :
               Len(weeklyData(offset)[name])
                  = Cardinality({SundayOnOrBefore(workouts[i].date) :
                                    i \in {j \in Counted : workouts[j].name = name}})

\* What an entry brings to its bucket: its weight, 0 without one, and its
\* volume.
EntryWeight(w) == IF HasWeight(w) THEN w.weightKg ELSE 0
EntryVolume(w) == EntryWeight(w) * w.reps * w.sets

\* The entries of the log with that name whose date falls under that label.
Members(name, week, offset) ==
    {i \in 1..Len(workouts) :
        workouts[i].name = name /\ getWeekLabel(workouts[i].date, offset) = week}

\* C15: in every time zone, every entry of the log is counted in exactly one
\* bucket: its exercise has one bucket for its week, whose maxima are at least
\* the entry's own values, and each bucket holds exactly the maxima of the
\* entries of its exercise and week, so no entry is counted anywhere else.
C15_EveryEntryInOneBucket ==
    \A offset \in UtcOffsets :
        /\ \A i \in 1..Len(workouts) :
               LET found == BucketsOf(weeklyData(offset), workouts[i].name,
                                      getWeekLabel(workouts[i].date, offset))
               IN  /\ Len(found) = 1
                   /\ found[1].weight >= EntryWeight(workouts[i])
                   /\ found[1].volume >= EntryVolume(workouts[i])
        /\ \A name \in DOMAIN weeklyData(offset) :
               \A k \in 1..Len(weeklyData(offset)[name]) :
                   LET bucket == weeklyData(offset)[name][k]
                       members == Members(name, bucket.week, offset)
                   IN  /\ \E i \in members : bucket.weight = EntryWeight(workouts[i])
                       /\ \E i \in members : bucket.volume = EntryVolume(workouts[i])

\* The greatest number of a non-empty finite set of numbers.
Greatest(S) == CHOOSE x \in S : \A y \in S : y <= x

\* reps * (weightKg ?? 1), in hundredths of a kg: an entry without weight
\* counts 1 per rep.
RepsTimesWeight(w) == w.reps * (IF HasWeight(w) THEN w.weightKg ELSE 100)

\* C16: in every time zone, the volume of each bucket is the greatest
\* reps * weightKg of its counted entries, an entry without weight counting 1
\* per rep, and its weight is the greatest weight of its counted entries.
C16_BucketMaxima ==
    \A offset \in UtcOffsets :
        \A name \in DOMAIN weeklyData(offset) :
            \A k \in 1..Len(weeklyData(offset)[name]) :
                LET bucket == weeklyData(offset)[name][k]
                    members == Members(name, bucket.week, offset) \cap Counted
                IN  /\ bucket.volume = Greatest({RepsTimesWeight(workouts[i]) : i \in members})
                    /\ bucket.weight = Greatest({EntryWeight(workouts[i]) : i \in members})

\* C17: in every time zone and for every exercise, the series of the weekly
\* data is in strictly ascending order of week label, so it has one element
\* per week, whatever the order of the entries in the log.
C17_SeriesAscending ==
    \A offset \in UtcOffsets :
        \A name \in DOMAIN weeklyData(offset) :
            \A k \in 1..(Len(weeklyData(offset)[name]) - 1) :
                LabelBefore(weeklyData(offset)[name][k].week,
                            weeklyData(offset)[name][k + 1].week)

\* The log holds entries of one exercise whose weeks were created in
\* descending order by the loop, and the series has them ascending.
C17_Witness ==
    \E name \in WeeklyNames :
        /\ name \in DOMAIN weeklyData(1)
        /\ Len(weeklyData(1)[name]) = 3
        /\ LET grouped == aggregateUpTo(workouts, Len(workouts), 1)[name]
           IN  /\ LabelBefore(grouped[2].week, grouped[1].week)
               /\ LabelBefore(grouped[3].week, grouped[2].week)

\* "Bench Press" logged one entry at a time on three consecutive Mondays, the
\* 1st, 8th and 15th, with 40, 42.5 and 42.5 kg, in a log that held nothing
\* before (the newest entry is first).
ThreeMondays ==
    /\ Len(workouts) = 3
    /\ batches = <<1, 1, 1>>
    /\ \A i \in 1..3 : /\ workouts[i].name = "Bench Press"
                       /\ workouts[i].sets = 1
                       /\ workouts[i].id = 4 - i
                       /\ HasWeight(workouts[i])
    /\ <<workouts[3].date, workouts[2].date, workouts[1].date>> = <<1, 8, 15>>
    /\ <<workouts[3].weightKg, workouts[2].weightKg, workouts[1].weightKg>>
          = <<4000, 4250, 4250>>

\* The weekly data of the three Mondays: three buckets, of maximum weights 40,
\* 42.5 and 42.5 kg, ascending by week, in every time zone.
ThreeBuckets ==
    \A offset \in UtcOffsets :
        LET series == weeklyData(offset)["Bench Press"]
        IN  /\ Len(series) = 3
            /\ <<series[1].weight, series[2].weight, series[3].weight>>
                  = <<4000, 4250, 4250>>
            /\ LabelBefore(series[1].week, series[2].week)
            /\ LabelBefore(series[2].week, series[3].week)

\* C18: after the three Mondays the weekly data has three buckets of maximum
\* weights 40, 42.5 and 42.5 kg in ascending week order, and the insertions
\* flagged as max-weight PRs are the first (nothing was logged before it) and
\* the second (42.5 > 40), not the third (42.5 ties).
C18_ThreeMondays ==
    ThreeMondays =>
        /\ ThreeBuckets
        /\ workouts[3].isPRMaxWeight
        /\ workouts[2].isPRMaxWeight
        /\ ~workouts[1].isPRMaxWeight

C18_Witness == ThreeMondays /\ ThreeBuckets /\ workouts[3].isPRMaxWeight

\* C18 as stated: only the second insertion is flagged as a max-weight PR.
C18_OnlySecondFlagged ==
    ThreeMondays =>
        /\ ThreeBuckets
        /\ \A i \in 1..3 : workouts[i].isPRMaxWeight <=> i = 2

-----------------------------------------------------------------------------
(* Plan adherence claims *)

\* The tab was rendered with a plan and a start date: there are metrics.
Measured == lastOp.op = "progress" /\ lastOp.planMetrics # <<>>

\* C19: the metrics of a render satisfy weeksElapsed = floor(daysSinceStart /
\* 7), expectedWorkouts = weeksElapsed * expectedDaysPerWeek, completedWorkouts
\* = the number of distinct dates of the log, and completionRate = the integer
\* nearest to completedWorkouts / expectedWorkouts * 100 (a half going up) when
\* expectedWorkouts > 0, and 0 when expectedWorkouts = 0.
C19_AdherenceMetrics ==
    Measured =>
        LET m == lastOp.planMetrics[1]
            daysSinceStart == countDaysBetween(lastOp.programStartDate, lastOp.today,
                                               lastOp.clockChange)
            expectedDaysPerWeek ==
                IF lastOp.daysPerWeek \notin {Blank, 0} THEN lastOp.daysPerWeek
                ELSE IF "daysPerWeek" \in DOMAIN lastOp.activePlan[1]
                     THEN lastOp.activePlan[1].daysPerWeek
                     ELSE 4
        IN  /\ 7 * m.weeksElapsed <= daysSinceStart
            /\ daysSinceStart < 7 * (m.weeksElapsed + 1)
            /\ m.expectedWorkouts = m.weeksElapsed * expectedDaysPerWeek
            /\ \E dates \in SUBSET WeekDates :
                   /\ \A d \in WeekDates :
                          d \in dates <=> \E i \in 1..Len(workouts) : workouts[i].date = d
                   /\ m.completedWorkouts = Cardinality(dates)
            /\ m.expectedWorkouts > 0 =>
                   /\ 2 * (m.completionRate * m.expectedWorkouts - 100 * m.completedWorkouts)
                         <= m.expectedWorkouts
                   /\ 2 * (100 * m.completedWorkouts - m.completionRate * m.expectedWorkouts)
                         < m.expectedWorkouts
            /\ m.expectedWorkouts = 0 => m.completionRate = 0

\* A render with two entries on one date and one on another, measured against
\* 3 expected workouts: 2 of 3, a rate of 67.
C19_Witness ==
    /\ Measured
    /\ Len(workouts) = 3
    /\ lastOp.planMetrics[1].completedWorkouts = 2
    /\ lastOp.planMetrics[1].expectedWorkouts = 3
    /\ lastOp.planMetrics[1].completionRate = 67

\* C20: the completion rate the Plan Adherence card shows, as text and as
\* the width of its bar, is between 0 and 100.
C20_RateWithin0And100 ==
    Measured =>
        /\ lastOp.card[1].text >= 0 /\ lastOp.card[1].text <= 100
        /\ lastOp.card[1].width >= 0 /\ lastOp.card[1].width <= 100

\* The days of the Sunday-to-Saturday week that contains a day.
WeekOf(day) == {d \in (day - 6)..(day + 6) : d - (d % 7) = day - (day % 7)}

\* C21: at a render with metrics, the current-week workout count is the
\* number of distinct dates of the log within the Sunday-to-Saturday week of
\* today, and the current-week PR count is the number of entries dated within
\* that week that carry a PR flag.
C21_CurrentWeekCounts ==
    Measured =>
        /\ lastOp.thisWeek.thisWeekWorkouts
              = Cardinality({d \in WeekOf(lastOp.today) :
                                \E i \in 1..Len(workouts) : workouts[i].date = d})
        /\ lastOp.thisWeek.thisWeekPRs
              = Cardinality({i \in 1..Len(workouts) :
                                /\ workouts[i].date \in WeekOf(lastOp.today)
                                /\ (workouts[i].isPRMaxWeight \/ workouts[i].isPRVolume)})

-----------------------------------------------------------------------------
(* Unit conversion claims *)

\* The weights stored in the log, in hundredths of a kg.
StoredWeights == {workouts[i].weightKg : i \in {j \in 1..Len(workouts) : HasWeight(workouts[j])}}

\* C22: for every stored weight v and every unit, toKg(fromKg(v, unit), unit)
\* is v, with the fromKg of the app and with the fromKg of the progress chart.
C22_RoundTrip ==
    \A v \in StoredWeights : \A u \in Units :
        /\ toKgOf(fromKg(Whole(v), u), u).q = v
        /\ toKgOf(fromKg(Whole(v), u), u).r = 0
        /\ toKgOf(fromKgUtils(v, u), u).q = v
        /\ toKgOf(fromKgUtils(v, u), u).r = 0

-----------------------------------------------------------------------------
(* Export and import claims *)

\* C23: importing the file that was just exported leaves the log as it was,
\* entry for entry, in the same order, every field with its value and every
\* absent field absent.
C23_ExportImportLossless ==
    [][(lastOp.op = "export" /\ lastOp'.op = "import") => workouts' = workouts]_vars

-----------------------------------------------------------------------------
(* Frame claims *)

C25_RemoveOnlyThatEntry ==
    [][lastOp'.op = "remove" =>
        LET k == IndexOf(workouts, lastOp'.id)
        IN  /\ Len(workouts') = Len(workouts) - 1
            /\ \A i \in 1..(k - 1) : workouts'[i] = workouts[i]
            /\ \A i \in (k + 1)..Len(workouts) : workouts'[i - 1] = workouts[i]
            /\ lastOp'.id \notin Ids(workouts')]_vars

\* The heavier entry was deleted and the lighter one that remains is still
\* not flagged.
C25_Witness ==
    /\ lastOp.op = "remove"
    /\ Len(workouts) = 1
    /\ HasWeight(workouts[1])
    /\ ~workouts[1].isPRMaxWeight

-----------------------------------------------------------------------------
(* Circuit claims *)

\* Nothing is entered for the station: each of the two fields was never
\* touched or was left blank.
LeftBlank(manual) == \A k \in DOMAIN manual : manual[k] = Blank

\* C26: when a circuit is saved with the reps and the weight field of the
\* station left blank, whether never touched or typed into and cleared, the
\* only entry logged for the station is the "(sec)" entry.
C26_CompanionOnlyIfEntered ==
    [][(lastOp'.op = "circuit" /\ LeftBlank(lastOp'.manual)) =>
        /\ Len(workouts') = Len(workouts) + 1
        /\ isTimedName(workouts'[1].name)]_vars

-----------------------------------------------------------------------------
(* Plan calendar claims *)

\* The days shown that are scheduled: on or after the start, on a preferred
\* weekday.
Scheduled ==
    IF lastOp.programStartDate = Blank \/ lastOp.planLengthDays <= 0 THEN {}
    ELSE {d \in CalendarDays :
             /\ d >= lastOp.programStartDate
             /\ \E i \in 1..7 : WEEKDAYS[i] \in lastOp.preferredDays /\ (d % 7) + 1 = i}

\* C27: at a render of the calendar, a day that is not scheduled (no start
\* date, no positive plan length, before the start, not a preferred weekday)
\* has no plan day; the first scheduled day is Day 1; and each scheduled day
\* has the day after that of the scheduled day before it, Day 1 following the
\* last day of the plan.
C27_PlannedDayCycles ==
    lastOp.op = "calendar" =>
        /\ \A d \in CalendarDays \ Scheduled : lastOp.planned[d] = NoDay
        /\ \A d \in Scheduled :
               /\ lastOp.planned[d] \in 1..lastOp.planLengthDays
               /\ (\A e \in Scheduled : e >= d) => lastOp.planned[d] = 1
               /\ \A e \in Scheduled :
                      (e < d /\ \A f \in Scheduled : ~(e < f /\ f < d)) =>
                          lastOp.planned[d] = (lastOp.planned[e] % lastOp.planLengthDays) + 1

\* A plan of 3 days on three weekdays from Wednesday the 3rd: Thursday the
\* 4th is Day 1, Monday the 8th is Day 3 and Thursday the 11th is Day 1 again.
C27_Witness ==
    /\ lastOp.op = "calendar"
    /\ lastOp.planLengthDays = 3
    /\ lastOp.programStartDate = 3
    /\ lastOp.planned[1] = NoDay
    /\ lastOp.planned[4] = 1
    /\ lastOp.planned[8] = 3
    /\ lastOp.planned[11] = 1

-----------------------------------------------------------------------------
(* Concurrency claims *)

\* C28: when a second save runs from the render the first save ran from,
\* the log holds both batches, the second before the first, and each entry of
\* the second batch has the PR flags markPRsBeforeInsert gives it against the
\* log it is prepended to.
C28_SecondSaveAgainstActualLog ==
    [][lastOp'.op = "finishAgain" =>
        LET n == Head(batches')
        IN  /\ SubSeq(workouts', n + 1, Len(workouts')) = workouts
            /\ \A i \in 1..n :
                   workouts'[i] = markPRsBeforeInsert(workouts, <<Unflagged(workouts'[i])>>)[1]]_vars

\* Where the runner stands: its round, station index and phase.
Position(r) == <<r.round, r.stationIndex, r.phase>>

\* C29: while the runner is not running, its round, station index and phase
\* change only through a Skip or a Reset: no interval tick and no pending
\* round-rest timeout moves them.
C29_PausedMovesOnlyBySkipOrReset ==
    [][(/\ runner.mounted
        /\ ~runner.running
        /\ Position(runner') # Position(runner))
       => lastOp'.op \in {"skip", "reset"}]_vars

\* The entries pushed for the station with the given label.
Collected(r, label) ==
    Cardinality({i \in DOMAIN r.entries : r.entries[i] = label \o " (sec)"})

\* The place of a (round, station) pair in the order of the circuit.
Place(r) == (r.round - 1) * Len(r.circuit.stations) + r.stationIndex

\* C30: a circuit started once and left to run visits the (round, station)
\* pairs in strictly increasing order, the round never above circuit.rounds,
\* reaches the finished state, and has then collected rounds * stations
\* entries, one for each station in each round.
C30_RunsToCompletion ==
    /\ [][runner.mounted /\ Position(runner') # Position(runner)
          => \/ Place(runner') = Place(runner) + 1
             \/ Place(runner') = Place(runner) /\ runner'.phase = "rest"]_vars
    /\ [](runner.mounted => runner.round <= runner.circuit.rounds)
    /\ [](runner.mounted /\ runner.finished
          => /\ Len(runner.editableEntries)
                = runner.circuit.rounds * Len(runner.circuit.stations)
             /\ \A i \in DOMAIN runner.circuit.stations :
                    Collected(runner, runner.circuit.stations[i].label)
                    = runner.circuit.rounds)
    /\ (runner.mounted /\ runner.running) ~> (runner.mounted /\ runner.finished)

\* A circuit of two rounds with a round rest has run to its final review.
C30_Witness ==
    /\ runner.mounted
    /\ runner.finished
    /\ runner.circuit.rounds = 2
    /\ runner.circuit.roundRestSec > 0
    /\ Len(runner.editableEntries) = 4

====

